---- MODULE Spec2Model ----
(***************************************************************************)
(* Background sync queue, sync facade and Firestore usage tracker of       *)
(* naswar-dealer (src/firestore.js).                                       *)
(*                                                                         *)
(* JavaScript runs the code single-threaded: every action below is one     *)
(* synchronous run of code, from a call (or the resumption of an await)    *)
(* to the next await or return.  processQueue suspends at                  *)
(* `await this.processBatch(batch)` and at `await this.sleep(...)`;        *)
(* processBatch suspends at `await firestoreBatch.commit()`;               *)
(* immediateSync suspends at `await docRef.set/delete`.                    *)
(***************************************************************************)
EXTENDS Integers, Sequences, FiniteSets, Bags, TLC

(***************************************************************************)
(* Bounds of the model: how often the environment acts in one run.         *)
(***************************************************************************)
\* enqueue calls (Spec)
MaxEnq == 3
\* batch commits the remote store rejects
MaxCommitFails == 1
\* enqueue calls in the runs with scheduling (SpecLive)
LiveMaxEnq == 3
\* enqueue calls in the runs with clear() (SpecClear)
ClearMaxEnq == 2
\* clear() calls
MaxClears == 1
\* enqueue calls in the runs with failing constructions (SpecConstruct,
\* SpecRetry)
ConstructMaxEnq == 2
\* item constructions that throw
MaxConstructFails == 4
\* enqueue calls in the runs with immediateSync (SpecSync)
SyncMaxEnq == 2
\* enqueue calls in the runs of the usage tracker (SpecTracker)
TrackerMaxEnq == 1
\* clock advances
MaxTicks == 2
\* enqueue calls, clock advances and recorded writes in the runs of SpecDeliver
DeliverMaxEnq == 1
DeliverMaxTicks == 1
DeliverMaxTracks == 1
\* enqueue calls and rejected commits in the runs of the outage (SpecOutage)
OutageMaxEnq == 3
OutageMaxCommitFails == 4
\* item constructions that throw in the runs of SpecSession
SessionMaxConstructFails == 2
\* enqueue calls and item constructions that throw in the runs that count the
\* remote writes (SpecCount)
CountMaxEnq == 2
CountMaxConstructFails == 1
\* enqueue calls in the runs with two users (SpecUsers)
UsersMaxEnq == 2
\* immediateSync calls that reach the remote store
MaxSyncNow == 1
\* trackFirestoreRead / trackFirestoreWrite calls of the application
MaxTrackCalls == 3

(***************************************************************************)
(* Program constants.                                                      *)
(***************************************************************************)
\* BackgroundSyncQueue.batchSize is 50 in the source; the model drains in
\* batches of 2, so that a handful of items spans several batches
batchSize == 2
retryAttempts == 3
\* 1000 * 60 * 60
MsPerHour == 3600000
ResetHours == 24

Users == {"u1", "u2"}
NoUser == "null"

\* a document id: <<origin, number>>; NoId is a falsy id (null, undefined, "")
NoId == <<"none", 0>>

\* clock steps: 12 hours (two of them are exactly 24 hours) and 25 hours
TickSteps == {12 * MsPerHour, 25 * MsPerHour}
\* the counts the application's other paths report
ReadCounts == {1, 3}
WriteCounts == {5}

\* at most MaxClears + 1 processQueue invocations are ever suspended at once:
\* a new one starts only when the flag is down, and only clear() lowers the
\* flag under a running one
DrainIds == 1 .. (MaxClears + 1)

VARIABLES
    currentUser,    \* firestore.js:1   the logged-in user, or NoUser
    firebaseDB,     \* firestore.js:2   TRUE when the Firestore handle exists
    queue,          \* BackgroundSyncQueue.queue
    processing,     \* BackgroundSyncQueue.processing
    drains,         \* the processQueue invocations: where each one is suspended
    direct,         \* the writes of immediateSync awaiting the remote store
    remote,         \* bag of the operations the remote store has applied
    firestoreStats, \* firestore.js:305
    saved,          \* localStorage['firestoreStats']: <<>> or <<stats>>
    now,            \* Date.now()
    ret,            \* what the last call with a result returned
    hist,           \* history of the run: counts of the environment's choices
    bridge          \* bridge.js: its globals, the page and its pending timers

vars == <<currentUser, firebaseDB, queue, processing, drains, direct, remote,
          firestoreStats, saved, now, ret, hist, bridge>>

(***************************************************************************)
(* Helpers.                                                                *)
(***************************************************************************)
Min(a, b) == IF a <= b THEN a ELSE b

\* the elements of s at the positions in I, in order
RECURSIVE Pick(_, _, _)
Pick(s, I, i) ==
    IF i > Len(s) THEN <<>>
    ELSE (IF i \in I THEN <<s[i]>> ELSE <<>>) \o Pick(s, I, i + 1)

\* the bag of the elements of a sequence
RECURSIVE SeqToBag(_)
SeqToBag(s) == IF s = <<>> THEN EmptyBag ELSE SetToBag({Head(s)}) (+) SeqToBag(Tail(s))

\* s without its i-th element
RemoveAt(s, i) == SubSeq(s, 1, i - 1) \o SubSeq(s, i + 1, Len(s))

IdleDrain == [pc |-> "idle", batch |-> <<>>, ops |-> <<>>]
NoRet ==
    [call |-> "none", result |-> "none", queueLength |-> 0, processing |-> FALSE,
     pending |-> 0]
Returned(call, result) ==
    [call |-> call, result |-> result, queueLength |-> 0, processing |-> FALSE,
     pending |-> 0]

\* `!currentUser || !firebaseDB` is false
SessionActive == firebaseDB /\ currentUser # NoUser

ActiveDrains == {d \in DrainIds : drains[d].pc # "idle"}

(***************************************************************************)
(* Usage tracker (firestore.js:297-336, 418-433).                          *)
(***************************************************************************)
\* the age test of line 321 written with > instead of >=
hoursSinceResetMoreThan(stats, t, h) == (t - stats.lastReset) > h * MsPerHour

\* (now - lastReset) / (1000 * 60 * 60) >= 24, the division being exact
hoursSinceResetAtLeast(stats, t, h) == (t - stats.lastReset) >= h * MsPerHour

checkAndAutoResetFirestoreStats(stats, t) ==
    IF hoursSinceResetAtLeast(stats, t, ResetHours)
    THEN [reads |-> 0, writes |-> 0, history |-> <<>>, lastReset |-> t]
    ELSE stats

trackFirestoreRead(stats, t, count) ==
    [checkAndAutoResetFirestoreStats(stats, t) EXCEPT !.reads = @ + count]

\* trackFirestoreWrite adding to the counter without the age check of line 428
trackFirestoreWriteNoReset(stats, t, count) ==
    [stats EXCEPT !.writes = @ + count]

trackFirestoreWrite(stats, t, count) ==
    [checkAndAutoResetFirestoreStats(stats, t) EXCEPT !.writes = @ + count]

\* localStorage.setItem('firestoreStats', JSON.stringify(firestoreStats))
saveFirestoreStats(stats) == <<stats>>

(***************************************************************************)
(* BackgroundSyncQueue (firestore.js:12-167).                              *)
(***************************************************************************)
\* Date.now().toString(36) + Math.random()...: a fresh id for the k-th item
generateId(k) == <<"gen", k>>

\* the object enqueue pushes, without its timestamp (Date.now(), which no code
\* reads); n numbers the enqueue calls, owner is the user
\* logged in at the call, offline tells that no session was active at the call
\* and cf counts the consecutive construction failures (n, owner, offline and
\* cf are history fields, the code does not hold them)
NewItem(operation, collection, data, id, k) ==
    [ operation  |-> operation,
      collection |-> collection,
      data       |-> data,
      id         |-> IF id # NoId THEN id ELSE generateId(k),
      attempts   |-> 0,
      n          |-> k,
      owner      |-> currentUser,
      offline    |-> ~SessionActive,
      cf         |-> 0 ]

\* firestoreBatch.set(docRef, {...}, {merge: true}) / firestoreBatch.delete(docRef)
\* with docRef = users/<currentUser.id>/<item.collection>/<item.id>
BatchOp(item) ==
    [ kind       |-> IF item.operation = "delete" THEN "delete" ELSE "set",
      user       |-> currentUser,
      collection |-> item.collection,
      id         |-> item.id,
      n          |-> item.n ]

\* the catch block of the construction loop: item.attempts++ on the object
\* that also stays in the batch array
AfterConstruction(item, failed) ==
    IF ~failed THEN [item EXCEPT !.cf = 0]
    ELSE IF item.attempts < retryAttempts
         THEN [item EXCEPT !.attempts = @ + 1, !.cf = @ + 1]
         ELSE [item EXCEPT !.cf = @ + 1]

\* Pass with a splice that removes batchSize items and hands one fewer to
\* processBatch
PassSkipsOne(q, F) ==
    LET k      == Min(batchSize, Len(q))
        batch  == SubSeq(q, 1, Min(k, batchSize - 1))
        rest   == SubSeq(q, k + 1, Len(q))
        after  == [i \in 1 .. Len(batch) |-> AfterConstruction(batch[i], i \in F)]
        retry  == {i \in F \cap (1 .. Len(batch)) : batch[i].attempts < retryAttempts}
        ops    == [i \in 1 .. Len(Pick(batch, (1 .. Len(batch)) \ F, 1)) |->
                      BatchOp(Pick(batch, (1 .. Len(batch)) \ F, 1)[i])]
    IN  IF ~SessionActive
        THEN [ queue |-> rest \o batch, deferred |-> TRUE,
               failed |-> 0, exhausted |-> {},
               drain |-> [pc |-> "resume", batch |-> <<>>, ops |-> <<>>] ]
        ELSE [ queue |-> rest \o Pick(after, retry, 1), deferred |-> FALSE,
               failed |-> Cardinality(F),
               exhausted |-> {batch[i].n : i \in {j \in F \cap (1 .. Len(batch)) : after[j].cf >= retryAttempts}},
               drain |-> IF Len(ops) > 0
                         THEN [pc |-> "commit", batch |-> after, ops |-> ops]
                         ELSE [pc |-> "resume", batch |-> <<>>, ops |-> <<>>] ]


\* Pass returning from processBatch without re-queueing when no session is active
PassDropsDeferred(q, F) ==
    LET k      == Min(batchSize, Len(q))
        batch  == SubSeq(q, 1, k)
        rest   == SubSeq(q, k + 1, Len(q))
        after  == [i \in 1 .. k |-> AfterConstruction(batch[i], i \in F)]
        retry  == {i \in F : batch[i].attempts < retryAttempts}
        ops    == [i \in 1 .. Len(Pick(batch, (1 .. k) \ F, 1)) |->
                      BatchOp(Pick(batch, (1 .. k) \ F, 1)[i])]
    IN  IF ~SessionActive
        THEN [ queue |-> rest, deferred |-> TRUE,
               failed |-> 0, exhausted |-> {},
               drain |-> [pc |-> "resume", batch |-> <<>>, ops |-> <<>>] ]
        ELSE [ queue |-> rest \o Pick(after, retry, 1), deferred |-> FALSE,
               failed |-> Cardinality(F),
               exhausted |-> {batch[i].n : i \in {j \in F : after[j].cf >= retryAttempts}},
               drain |-> IF Len(ops) > 0
                         THEN [pc |-> "commit", batch |-> after, ops |-> ops]
                         ELSE [pc |-> "resume", batch |-> <<>>, ops |-> <<>>] ]

\* One pass of the while loop of processQueue on queue q, up to the await of
\* processBatch: splice a batch, and run processBatch up to its first await.
\* F: the positions of the batch whose construction throws.
Pass(q, F) ==
    LET k      == Min(batchSize, Len(q))
        batch  == SubSeq(q, 1, k)
        rest   == SubSeq(q, k + 1, Len(q))
        after  == [i \in 1 .. k |-> AfterConstruction(batch[i], i \in F)]
        retry  == {i \in F : batch[i].attempts < retryAttempts}
        ops    == [i \in 1 .. Len(Pick(batch, (1 .. k) \ F, 1)) |->
                      BatchOp(Pick(batch, (1 .. k) \ F, 1)[i])]
    IN  IF ~SessionActive
        THEN [ queue |-> rest \o batch, deferred |-> TRUE,
               failed |-> 0, exhausted |-> {},
               drain |-> [pc |-> "resume", batch |-> <<>>, ops |-> <<>>] ]
        ELSE [ queue |-> rest \o Pick(after, retry, 1), deferred |-> FALSE,
               failed |-> Cardinality(F),
               exhausted |-> {batch[i].n : i \in {j \in F : after[j].cf >= retryAttempts}},
               drain |-> IF Len(ops) > 0
                         THEN [pc |-> "commit", batch |-> after, ops |-> ops]
                         ELSE [pc |-> "resume", batch |-> <<>>, ops |-> <<>>] ]

\* the sets of batch positions the environment may make fail in a pass on a
\* queue of len items, at most budget constructions failing in a run
FailChoices(len, budget) ==
    IF ~SessionActive THEN {{}}
    ELSE {F \in SUBSET (1 .. Min(batchSize, len)) :
             hist.cfail + Cardinality(F) <= budget}

\* the choices for a call that starts a drain only when none is flagged
StartChoices(len, budget) == IF processing THEN {{}} ELSE FailChoices(len, budget)

FreeDrain == CHOOSE d \in DrainIds :
                /\ drains[d].pc = "idle"
                /\ \A e \in DrainIds : e < d => drains[e].pc # "idle"

\* the effect of a pass of drain d on queue q, h being the history so far
DoPass(d, q, F, h) ==
    LET r == Pass(q, F) IN
    /\ queue' = r.queue
    /\ drains' = [drains EXCEPT ![d] = r.drain]
    /\ hist' = [h EXCEPT !.cfail = @ + r.failed,
                         !.deferred = @ \/ r.deferred,
                         !.exhausted = @ \cup r.exhausted]

\* the finally block of processQueue
DoExit(d, h) ==
    /\ processing' = FALSE
    /\ drains' = [drains EXCEPT ![d] = IdleDrain]
    /\ hist' = h
    /\ UNCHANGED queue

\* processQueue() called with the queue being q: returns at once when a drain
\* is flagged or q is empty, else sets the flag and runs the first pass
processQueue(q, F, h) ==
    IF processing \/ Len(q) = 0
    THEN /\ F = {}
         /\ queue' = q
         /\ hist' = h
         /\ UNCHANGED <<processing, drains>>
    ELSE /\ processing' = TRUE
         /\ DoPass(FreeDrain, q, F, h)

\* enqueue(operation, collection, data, id)
enqueue(operation, collection, data, id, F) ==
    LET k == hist.enq + 1
        q == Append(queue, NewItem(operation, collection, data, id, k))
        h == [hist EXCEPT !.enq = k]
    IN  IF ~processing
        THEN processQueue(q, F, h)
        ELSE /\ F = {}
             /\ queue' = q
             /\ hist' = h
             /\ UNCHANGED <<processing, drains>>

\* the writes handed to the remote store and not yet settled
RECURSIVE CommitsFrom(_)
CommitsFrom(d) ==
    IF d \notin DrainIds THEN EmptyBag
    ELSE SeqToBag(drains[d].ops) (+) CommitsFrom(d + 1)

InFlight == SeqToBag(direct) (+) CommitsFrom(1)

(***************************************************************************)
(* The bridge (bridge.js).                                                 *)
(***************************************************************************)
\* maxAttempts of waitForDataLayer and of waitForAppLayer
maxAttemptsData == 200
maxAttemptsApp == 100
\* the period of the three setInterval timers and the setTimeout of ensureReady
PollMs == 50
EnsureTimeoutMs == 10000
\* the ticks of ensureReady's interval that are due up to its timeout
EnsureMaxPolls == EnsureTimeoutMs \div PollMs

\* bridge.js:22-29 after the script has run up to `await waitForDOM()`, the
\* document still loading. at: where initializeBridge is suspended; attempts:
\* the counter of the running wait; idb, showTab: whether the globals of the
\* other layers exist; ensure, polls: the pending DataBridge.ensureReady call
\* and the ticks its interval has had.
BridgeInit ==
    [ bridgeReady            |-> FALSE,
      initializationComplete |-> FALSE,
      uiLayerReady           |-> FALSE,
      dataLayerReady         |-> FALSE,
      appLayerReady          |-> FALSE,
      at                     |-> "waitForDOM",
      attempts               |-> 0,
      readyState             |-> "loading",
      idb                    |-> FALSE,
      showTab                |-> FALSE,
      ensure                 |-> "none",
      polls                  |-> 0 ]

QueueUnchanged ==
    UNCHANGED <<currentUser, firebaseDB, queue, processing, drains, direct, remote,
                firestoreStats, saved, now, ret, hist>>

\* the page: DOMContentLoaded, then load
DocumentAdvances ==
    /\ bridge.readyState # "complete"
    /\ bridge' = [bridge EXCEPT !.readyState =
                      IF @ = "loading" THEN "interactive" ELSE "complete"]
    /\ QueueUnchanged

\* the other layers' scripts define idb (with init) / showTab
IdbLoads ==
    /\ ~bridge.idb
    /\ bridge' = [bridge EXCEPT !.idb = TRUE]
    /\ QueueUnchanged

ShowTabLoads ==
    /\ ~bridge.showTab
    /\ bridge' = [bridge EXCEPT !.showTab = TRUE]
    /\ QueueUnchanged

\* waitForDOM resolves: lines 35-38, up to the promise of waitForDataLayer
AfterDOM ==
    /\ bridge.at = "waitForDOM"
    /\ bridge.readyState # "loading"
    /\ bridge' = [bridge EXCEPT !.uiLayerReady = TRUE,
                                !.at = "waitForDataLayer", !.attempts = 0]
    /\ QueueUnchanged

\* a tick of waitForDataLayer never giving up (lines 74-78 left out)
PollDataNoLimit ==
    /\ bridge.at = "waitForDataLayer"
    /\ bridge' = IF bridge.idb
                 THEN [bridge EXCEPT !.dataLayerReady = TRUE,
                                     !.at = "waitForAppLayer", !.attempts = 0]
                 ELSE [bridge EXCEPT !.attempts = @ + 1]
    /\ QueueUnchanged

\* a tick of the interval of waitForDataLayer: lines 66-79, and when it
\* resolves lines 39-42, up to the promise of waitForAppLayer
PollData ==
    /\ bridge.at = "waitForDataLayer"
    /\ bridge' = IF bridge.idb \/ bridge.attempts + 1 >= maxAttemptsData
                 THEN [bridge EXCEPT !.dataLayerReady = TRUE,
                                     !.at = "waitForAppLayer", !.attempts = 0]
                 ELSE [bridge EXCEPT !.attempts = @ + 1]
    /\ QueueUnchanged

\* a tick of the interval of waitForAppLayer: lines 88-101, and when it
\* resolves lines 43-48
PollApp ==
    /\ bridge.at = "waitForAppLayer"
    /\ bridge' = IF \/ bridge.showTab \/ bridge.readyState = "complete"
                    \/ bridge.attempts + 1 >= maxAttemptsApp
                 THEN [bridge EXCEPT !.appLayerReady = TRUE, !.bridgeReady = TRUE,
                                     !.initializationComplete = TRUE,
                                     !.at = "done", !.attempts = 0]
                 ELSE [bridge EXCEPT !.attempts = @ + 1]
    /\ QueueUnchanged

\* DataBridge.isReady()
isReady == bridge.bridgeReady /\ bridge.dataLayerReady

\* DataBridge.ensureReady() up to its promise: lines 117-132
EnsureReady ==
    /\ bridge.ensure # "waiting"
    /\ bridge' = IF isReady
                 THEN [bridge EXCEPT !.ensure = "true", !.polls = 0]
                 ELSE [bridge EXCEPT !.ensure = "waiting", !.polls = 0]
    /\ QueueUnchanged

\* a tick of the interval of ensureReady: lines 121-126
PollEnsure ==
    /\ bridge.ensure = "waiting"
    /\ bridge.polls < EnsureMaxPolls
    /\ bridge' = IF bridge.bridgeReady
                 THEN [bridge EXCEPT !.ensure = "true", !.polls = 0]
                 ELSE [bridge EXCEPT !.polls = @ + 1]
    /\ QueueUnchanged

\* the timeout of ensureReady fires: lines 128-131; the tick of the interval
\* that is due at the same moment may come before or after it
EnsureTimeout ==
    /\ bridge.ensure = "waiting"
    /\ bridge.polls >= EnsureMaxPolls - 1
    /\ bridge' = [bridge EXCEPT !.ensure = "false", !.polls = 0]
    /\ QueueUnchanged

(***************************************************************************)
(* Initial state: the scripts have just been loaded.                       *)
(***************************************************************************)
Init ==
    /\ bridge = BridgeInit
    /\ currentUser = NoUser
    /\ firebaseDB = FALSE
    /\ queue = <<>>
    /\ processing = FALSE
    /\ drains = [d \in DrainIds |-> IdleDrain]
    /\ direct = <<>>
    /\ remote = EmptyBag
    /\ now = 0
    /\ firestoreStats = [reads |-> 0, writes |-> 0, history |-> <<>>, lastReset |-> 0]
    /\ saved = <<>>
    /\ ret = NoRet
    /\ hist = [enq |-> 0, cfail |-> 0, commitFail |-> 0, clears |-> 0, ticks |-> 0,
               syncNow |-> 0, tracks |-> 0, deferred |-> FALSE, exhausted |-> {},
               cleared |-> 0]

(***************************************************************************)
(* The environment: the session globals and the clock.                     *)
(***************************************************************************)
Login(u) ==
    /\ currentUser # u
    /\ currentUser' = u
    /\ UNCHANGED <<firebaseDB, queue, processing, drains, direct, remote,
                   firestoreStats, saved, now, ret, hist>>
    /\ UNCHANGED bridge

Logout ==
    /\ currentUser # NoUser
    /\ currentUser' = NoUser
    /\ UNCHANGED <<firebaseDB, queue, processing, drains, direct, remote,
                   firestoreStats, saved, now, ret, hist>>
    /\ UNCHANGED bridge

InitFirebase ==
    /\ ~firebaseDB
    /\ firebaseDB' = TRUE
    /\ UNCHANGED <<currentUser, queue, processing, drains, direct, remote,
                   firestoreStats, saved, now, ret, hist>>
    /\ UNCHANGED bridge

Tick(dt) ==
    /\ now' = now + dt
    /\ hist' = [hist EXCEPT !.ticks = @ + 1]
    /\ UNCHANGED <<currentUser, firebaseDB, queue, processing, drains, direct, remote,
                   firestoreStats, saved, ret>>
    /\ UNCHANGED bridge

(***************************************************************************)
(* Calls on BackgroundSyncQueue.                                           *)
(***************************************************************************)
\* BackgroundSyncQueue.enqueue(operation, collection, data) called directly
Enqueue(operation, collection, data, F) ==
    /\ enqueue(operation, collection, data, NoId, F)
    /\ UNCHANGED <<currentUser, firebaseDB, direct, remote, firestoreStats, saved,
                   now, ret>>
    /\ UNCHANGED bridge

\* BackgroundSyncQueue.processQueue() called directly
ProcessQueue(F) ==
    /\ processQueue(queue, F, hist)
    /\ ret' = Returned("processQueue",
                       IF processing \/ Len(queue) = 0 THEN "returned" ELSE "started")
    /\ UNCHANGED <<currentUser, firebaseDB, direct, remote, firestoreStats, saved, now>>
    /\ UNCHANGED bridge

\* BackgroundSyncQueue.getStatus()
getStatus ==
    [call |-> "getStatus", result |-> "status",
     queueLength |-> Len(queue), processing |-> processing, pending |-> Len(queue)]

GetStatus ==
    /\ ret' = getStatus
    /\ UNCHANGED <<currentUser, firebaseDB, queue, processing, drains, direct, remote,
                   firestoreStats, saved, now, hist>>
    /\ UNCHANGED bridge

\* BackgroundSyncQueue.clear(); hist.cleared keeps the number of the last
\* item enqueued before it
Clear ==
    /\ queue' = <<>>
    /\ processing' = FALSE
    /\ hist' = [hist EXCEPT !.clears = @ + 1, !.cleared = hist.enq]
    /\ UNCHANGED <<currentUser, firebaseDB, drains, direct, remote,
                   firestoreStats, saved, now, ret>>
    /\ UNCHANGED bridge

(***************************************************************************)
(* Resumptions of a suspended processQueue / processBatch.                 *)
(***************************************************************************)
\* CommitOk recording batch.length writes instead of operationCount
CommitOkCountsBatch(d) ==
    /\ drains[d].pc = "commit"
    /\ remote' = remote (+) SeqToBag(drains[d].ops)
    /\ firestoreStats' = trackFirestoreWrite(firestoreStats, now, Len(drains[d].batch))
    /\ saved' = saveFirestoreStats(firestoreStats')
    /\ drains' = [drains EXCEPT ![d] = [pc |-> "resume", batch |-> <<>>, ops |-> <<>>]]
    /\ UNCHANGED <<currentUser, firebaseDB, queue, processing, direct, now, ret, hist>>
    /\ UNCHANGED bridge

\* firestoreBatch.commit() resolves: lines 122-126, then processBatch returns
CommitOk(d) ==
    /\ drains[d].pc = "commit"
    /\ remote' = remote (+) SeqToBag(drains[d].ops)
    /\ firestoreStats' = trackFirestoreWrite(firestoreStats, now, Len(drains[d].ops))
    /\ saved' = saveFirestoreStats(firestoreStats')
    /\ drains' = [drains EXCEPT ![d] = [pc |-> "resume", batch |-> <<>>, ops |-> <<>>]]
    /\ UNCHANGED <<currentUser, firebaseDB, queue, processing, direct, now, ret, hist>>
    /\ UNCHANGED bridge

\* CommitFail re-queueing only the first item of the rejected batch
CommitFailDropsRest(d) ==
    /\ drains[d].pc = "commit"
    /\ queue' = Append(queue, [drains[d].batch[1] EXCEPT !.attempts = @ + 1])
    /\ drains' = [drains EXCEPT ![d] = [pc |-> "resume", batch |-> <<>>, ops |-> <<>>]]
    /\ hist' = [hist EXCEPT !.commitFail = @ + 1]
    /\ UNCHANGED <<currentUser, firebaseDB, processing, direct, remote,
                   firestoreStats, saved, now, ret>>
    /\ UNCHANGED bridge

\* CommitFail giving up the items that have used their retryAttempts, as the
\* construction loop does
CommitFailCapped(d) ==
    /\ drains[d].pc = "commit"
    /\ queue' = queue \o
                    Pick([i \in 1 .. Len(drains[d].batch) |->
                             [drains[d].batch[i] EXCEPT !.attempts = @ + 1]],
                         {i \in 1 .. Len(drains[d].batch) :
                             drains[d].batch[i].attempts < retryAttempts}, 1)
    /\ drains' = [drains EXCEPT ![d] = [pc |-> "resume", batch |-> <<>>, ops |-> <<>>]]
    /\ hist' = [hist EXCEPT !.commitFail = @ + 1]
    /\ UNCHANGED <<currentUser, firebaseDB, processing, direct, remote,
                   firestoreStats, saved, now, ret>>
    /\ UNCHANGED bridge

\* CommitFail re-queueing the items of the rejected batch under fresh ids
CommitFailMintsId(d) ==
    /\ drains[d].pc = "commit"
    /\ queue' = queue \o [i \in 1 .. Len(drains[d].batch) |->
                            [drains[d].batch[i] EXCEPT !.attempts = @ + 1,
                                                       !.id = generateId(0)]]
    /\ drains' = [drains EXCEPT ![d] = [pc |-> "resume", batch |-> <<>>, ops |-> <<>>]]
    /\ hist' = [hist EXCEPT !.commitFail = @ + 1]
    /\ UNCHANGED <<currentUser, firebaseDB, processing, direct, remote,
                   firestoreStats, saved, now, ret>>
    /\ UNCHANGED bridge

\* firestoreBatch.commit() rejects: lines 127-131, then processBatch returns
CommitFail(d) ==
    /\ drains[d].pc = "commit"
    /\ queue' = queue \o [i \in 1 .. Len(drains[d].batch) |->
                            [drains[d].batch[i] EXCEPT !.attempts = @ + 1]]
    /\ drains' = [drains EXCEPT ![d] = [pc |-> "resume", batch |-> <<>>, ops |-> <<>>]]
    /\ hist' = [hist EXCEPT !.commitFail = @ + 1]
    /\ UNCHANGED <<currentUser, firebaseDB, processing, direct, remote,
                   firestoreStats, saved, now, ret>>
    /\ UNCHANGED bridge

\* Resume pausing after every batch, also when the queue is empty (line 59
\* without its test); the loop test then ends the drain after the pause
ResumeAlwaysSleeps(d) ==
    /\ drains[d].pc = "resume"
    /\ drains' = [drains EXCEPT ![d].pc = "sleep"]
    /\ UNCHANGED <<queue, processing, hist>>
    /\ UNCHANGED <<currentUser, firebaseDB, direct, remote, firestoreStats, saved,
                   now, ret>>
    /\ UNCHANGED bridge

\* Resume leaving the loop after one batch whatever the queue holds (an `if`
\* in the place of the `while` of line 51)
ResumeNoLoop(d) ==
    /\ drains[d].pc = "resume"
    /\ DoExit(d, hist)
    /\ UNCHANGED <<currentUser, firebaseDB, direct, remote, firestoreStats, saved,
                   now, ret>>
    /\ UNCHANGED bridge

\* processQueue resumes after `await this.processBatch(batch)`: lines 59-61,
\* or the loop test of line 51 and the finally block when the queue is empty
Resume(d) ==
    /\ drains[d].pc = "resume"
    /\ IF Len(queue) > 0
       THEN /\ drains' = [drains EXCEPT ![d].pc = "sleep"]
            /\ UNCHANGED <<queue, processing, hist>>
       ELSE DoExit(d, hist)
    /\ UNCHANGED <<currentUser, firebaseDB, direct, remote, firestoreStats, saved,
                   now, ret>>
    /\ UNCHANGED bridge

\* the throttle timer fires: the loop test of line 51 and the next pass
SleepDone(d, F) ==
    /\ drains[d].pc = "sleep"
    /\ IF Len(queue) > 0
       THEN /\ DoPass(d, queue, F, hist)
            /\ UNCHANGED processing
       ELSE /\ F = {}
            /\ DoExit(d, hist)
    /\ UNCHANGED <<currentUser, firebaseDB, direct, remote, firestoreStats, saved,
                   now, ret>>
    /\ UNCHANGED bridge

(***************************************************************************)
(* Sync facade (firestore.js:180-243).                                     *)
(***************************************************************************)
\* queueBackgroundSync minting an id for every item (line 188 without data.id)
queueBackgroundSyncFreshId(collection, data, operation, F) ==
    IF ~SessionActive
    THEN /\ F = {}
         /\ ret' = Returned("queueBackgroundSync", "skipped")
         /\ UNCHANGED <<queue, processing, drains, hist>>
    ELSE /\ enqueue(operation, collection, data, generateId(hist.enq + 1), F)
         /\ ret' = Returned("queueBackgroundSync", "queued")

\* queueBackgroundSync(collection, data, operation): lines 180-197
queueBackgroundSync(collection, data, operation, F) ==
    IF ~SessionActive
    THEN /\ F = {}
         /\ ret' = Returned("queueBackgroundSync", "skipped")
         /\ UNCHANGED <<queue, processing, drains, hist>>
    ELSE /\ enqueue(operation, collection, data,
                    IF data.id # NoId THEN data.id ELSE generateId(hist.enq + 1), F)
         /\ ret' = Returned("queueBackgroundSync", "queued")

QueueBackgroundSync(collection, data, operation, F) ==
    /\ queueBackgroundSync(collection, data, operation, F)
    /\ UNCHANGED <<currentUser, firebaseDB, direct, remote, firestoreStats, saved, now>>
    /\ UNCHANGED bridge

\* the write immediateSync issues: docRef.set(...) or docRef.delete(), with
\* docId = data.id || Date.now().toString()
DirectOp(collection, data, operation) ==
    [ kind       |-> IF operation = "delete" THEN "delete" ELSE "set",
      user       |-> currentUser,
      collection |-> collection,
      id         |-> IF data.id # NoId THEN data.id ELSE <<"now", now>>,
      n          |-> 0 ]

\* immediateSync testing only currentUser in line 204
immediateSyncUserOnly(collection, data, operation) ==
    IF currentUser = NoUser
    THEN /\ ret' = Returned("immediateSync", "SessionError")
         /\ UNCHANGED <<direct, hist>>
    ELSE /\ direct' = Append(direct, DirectOp(collection, data, operation))
         /\ hist' = [hist EXCEPT !.syncNow = @ + 1]
         /\ ret' = Returned("immediateSync", "pending")

\* immediateSync up to its await
immediateSync(collection, data, operation) ==
    IF ~SessionActive
    THEN /\ ret' = Returned("immediateSync", "SessionError")
         /\ UNCHANGED <<direct, hist>>
    ELSE /\ direct' = Append(direct, DirectOp(collection, data, operation))
         /\ hist' = [hist EXCEPT !.syncNow = @ + 1]
         /\ ret' = Returned("immediateSync", "pending")

ImmediateSync(collection, data, operation) ==
    /\ immediateSync(collection, data, operation)
    /\ UNCHANGED <<currentUser, firebaseDB, queue, processing, drains, remote,
                   firestoreStats, saved, now>>
    /\ UNCHANGED bridge

\* the remote write of immediateSync resolves: lines 224-238
ImmediateSyncOk(i) ==
    /\ i \in 1 .. Len(direct)
    /\ remote' = remote (+) SetToBag({direct[i]})
    /\ firestoreStats' = trackFirestoreWrite(firestoreStats, now, 1)
    /\ saved' = saveFirestoreStats(firestoreStats')
    /\ direct' = RemoveAt(direct, i)
    /\ ret' = Returned("immediateSync", "true")
    /\ UNCHANGED <<currentUser, firebaseDB, queue, processing, drains, now, hist>>
    /\ UNCHANGED bridge

\* ImmediateSyncFail with the write recorded although the remote store rejected
ImmediateSyncFailCounts(i) ==
    /\ i \in 1 .. Len(direct)
    /\ direct' = RemoveAt(direct, i)
    /\ firestoreStats' = trackFirestoreWrite(firestoreStats, now, 1)
    /\ saved' = saveFirestoreStats(firestoreStats')
    /\ ret' = Returned("immediateSync", "RemoteError")
    /\ UNCHANGED <<currentUser, firebaseDB, queue, processing, drains, remote, now, hist>>
    /\ UNCHANGED bridge

\* the remote write of immediateSync rejects: lines 239-242
ImmediateSyncFail(i) ==
    /\ i \in 1 .. Len(direct)
    /\ direct' = RemoveAt(direct, i)
    /\ ret' = Returned("immediateSync", "RemoteError")
    /\ UNCHANGED <<currentUser, firebaseDB, queue, processing, drains, remote,
                   firestoreStats, saved, now, hist>>
    /\ UNCHANGED bridge

(***************************************************************************)
(* The usage tracker called by the other read and write paths.             *)
(***************************************************************************)
TrackRead(count) ==
    /\ firestoreStats' = trackFirestoreRead(firestoreStats, now, count)
    /\ saved' = saveFirestoreStats(firestoreStats')
    /\ hist' = [hist EXCEPT !.tracks = @ + 1]
    /\ UNCHANGED <<currentUser, firebaseDB, queue, processing, drains, direct, remote,
                   now, ret>>
    /\ UNCHANGED bridge

TrackWrite(count) ==
    /\ firestoreStats' = trackFirestoreWrite(firestoreStats, now, count)
    /\ saved' = saveFirestoreStats(firestoreStats')
    /\ hist' = [hist EXCEPT !.tracks = @ + 1]
    /\ UNCHANGED <<currentUser, firebaseDB, queue, processing, drains, direct, remote,
                   now, ret>>
    /\ UNCHANGED bridge

\* resetFirestoreStats(): lines 472-484
resetFirestoreStats(t) == [reads |-> 0, writes |-> 0, history |-> <<>>, lastReset |-> t]

ResetFirestoreStats ==
    /\ firestoreStats' = resetFirestoreStats(now)
    /\ UNCHANGED <<currentUser, firebaseDB, queue, processing, drains, direct, remote,
                   saved, now, ret, hist>>
    /\ UNCHANGED bridge

(***************************************************************************)
(* The calls the application makes in the model.                           *)
(***************************************************************************)
\* enqueue(operation, collection, data)
DirectInputs == {<<"create", "invoices", [id |-> NoId, amount |-> 100]>>}
\* queueBackgroundSync(collection, data, operation)
FacadeInputs ==
    { <<"invoices", [id |-> NoId, amount |-> 100], "update">>,
      <<"customers", [id |-> <<"doc", 1>>, amount |-> 50], "delete">> }
\* immediateSync(collection, data, operation)
SyncNowInputs ==
    { <<"invoices", [id |-> NoId, amount |-> 50], "delete">>,
      <<"customers", [id |-> <<"doc", 1>>, amount |-> 50], "update">> }

\* enqueue and queueBackgroundSync, at most maxEnq items in a run and at most
\* maxCf failing constructions
Enqueues(maxEnq, maxCf) ==
    /\ hist.enq < maxEnq
    /\ \/ \E c \in DirectInputs, F \in StartChoices(Len(queue) + 1, maxCf) :
             Enqueue(c[1], c[2], c[3], F)
       \/ \E c \in FacadeInputs, F \in StartChoices(Len(queue) + 1, maxCf) :
             QueueBackgroundSync(c[1], c[2], c[3], F)

\* enqueue called directly, at most maxEnq items in a run and at most maxCf
\* failing constructions
DirectEnqueues(maxEnq, maxCf) ==
    /\ hist.enq < maxEnq
    /\ \E c \in DirectInputs, F \in StartChoices(Len(queue) + 1, maxCf) :
          Enqueue(c[1], c[2], c[3], F)

\* queueBackgroundSync called without a session
FacadeSkips ==
    /\ ~SessionActive
    /\ \E c \in FacadeInputs : QueueBackgroundSync(c[1], c[2], c[3], {})

\* the steps of the suspended drains when the remote store accepts the commit
DrainSteps(maxCf) ==
    \/ \E d \in DrainIds : CommitOk(d)
    \/ \E d \in DrainIds : Resume(d)
    \/ \E d \in DrainIds, F \in FailChoices(Len(queue), maxCf) : SleepDone(d, F)

\* the remote store rejects a commit, at most maxCommitFails times in a run
CommitFails(maxCommitFails) ==
    /\ hist.commitFail < maxCommitFails
    /\ \E d \in DrainIds : CommitFail(d)

(***************************************************************************)
(* Spec: the queue under one user, the remote store rejecting at most      *)
(* MaxCommitFails commits.                                                 *)
(***************************************************************************)
Next ==
    \/ Login("u1")
    \/ Logout
    \/ InitFirebase
    \/ Enqueues(MaxEnq, 0)
    \/ FacadeSkips
    \/ ProcessQueue({})
    \/ GetStatus
    \/ DrainSteps(0)
    \/ CommitFails(MaxCommitFails)

Spec == Init /\ [][Next]_vars

(***************************************************************************)
(* SpecClear: the queue with clear() called at any moment.                 *)
(***************************************************************************)
NextClear ==
    \/ Login("u1")
    \/ Logout
    \/ InitFirebase
    \/ Enqueues(ClearMaxEnq, 0)
    \/ ProcessQueue({})
    \/ hist.clears < MaxClears /\ Clear
    \/ DrainSteps(0)
    \/ CommitFails(MaxCommitFails)

SpecClear == Init /\ [][NextClear]_vars

(***************************************************************************)
(* SpecConstruct: the queue with item constructions that throw.            *)
(***************************************************************************)
NextConstruct ==
    \/ Login("u1")
    \/ InitFirebase
    \/ Enqueues(ConstructMaxEnq, MaxConstructFails)
    \/ DrainSteps(MaxConstructFails)
    \/ CommitFails(MaxCommitFails)

SpecConstruct == Init /\ [][NextConstruct]_vars

(***************************************************************************)
(* SpecRetry: item constructions that throw, the remote store accepting    *)
(* every commit.                                                           *)
(***************************************************************************)
NextRetry ==
    \/ Login("u1")
    \/ InitFirebase
    \/ Enqueues(ConstructMaxEnq, MaxConstructFails)
    \/ DrainSteps(MaxConstructFails)

SpecRetry == Init /\ [][NextRetry]_vars

(***************************************************************************)
(* SpecSync: immediateSync beside the queue.                               *)
(***************************************************************************)
SyncNows ==
    \/ /\ SessionActive => hist.syncNow < MaxSyncNow
       /\ \E c \in SyncNowInputs : ImmediateSync(c[1], c[2], c[3])
    \/ \E i \in 1 .. Len(direct) : ImmediateSyncOk(i)
    \/ \E i \in 1 .. Len(direct) : ImmediateSyncFail(i)

NextSync ==
    \/ Login("u1")
    \/ Logout
    \/ InitFirebase
    \/ Enqueues(SyncMaxEnq, 0)
    \/ DrainSteps(0)
    \/ CommitFails(MaxCommitFails)
    \/ SyncNows

SpecSync == Init /\ [][NextSync]_vars

(***************************************************************************)
(* SpecCount: the queue with throwing constructions and rejected commits   *)
(* beside immediateSync, the clock standing still.                         *)
(***************************************************************************)
NextCount ==
    \/ Login("u1")
    \/ InitFirebase
    \/ DirectEnqueues(CountMaxEnq, CountMaxConstructFails)
    \/ DrainSteps(CountMaxConstructFails)
    \/ CommitFails(MaxCommitFails)
    \/ SyncNows

SpecCount == Init /\ [][NextCount]_vars

(***************************************************************************)
(* SpecTracker: the usage tracker and the clock, beside a short queue.     *)
(***************************************************************************)
Tracks ==
    /\ hist.tracks < MaxTrackCalls
    /\ \/ \E n \in ReadCounts : TrackRead(n)
       \/ \E n \in WriteCounts : TrackWrite(n)

NextTracker ==
    \/ Login("u1")
    \/ InitFirebase
    \/ hist.ticks < MaxTicks /\ \E dt \in TickSteps : Tick(dt)
    \/ Enqueues(TrackerMaxEnq, 0)
    \/ DrainSteps(0)
    \/ CommitFails(MaxCommitFails)
    \/ Tracks

SpecTracker == Init /\ [][NextTracker]_vars

(***************************************************************************)
(* SpecSession: the queue under a session that comes and goes, with        *)
(* constructions that throw and rejected commits.                          *)
(***************************************************************************)
NextSession ==
    \/ Login("u1")
    \/ Logout
    \/ InitFirebase
    \/ DirectEnqueues(ConstructMaxEnq, SessionMaxConstructFails)
    \/ ProcessQueue({})
    \/ DrainSteps(SessionMaxConstructFails)
    \/ CommitFails(MaxCommitFails)

SpecSession == Init /\ [][NextSession]_vars

(***************************************************************************)
(* SpecOutage: the remote store rejects every commit.                      *)
(***************************************************************************)
NextOutage ==
    \/ Login("u1")
    \/ InitFirebase
    \/ DirectEnqueues(OutageMaxEnq, 0)
    \/ \E d \in DrainIds : Resume(d)
    \/ \E d \in DrainIds : SleepDone(d, {})
    \/ CommitFails(OutageMaxCommitFails)

SpecOutage == Init /\ [][NextOutage]_vars

(***************************************************************************)
(* SpecUsers: two users logging in and out beside the queue.               *)
(***************************************************************************)
NextUsers ==
    \/ \E u \in Users : Login(u)
    \/ Logout
    \/ InitFirebase
    \/ Enqueues(UsersMaxEnq, 0)
    \/ DrainSteps(0)
    \/ CommitFails(MaxCommitFails)

SpecUsers == Init /\ [][NextUsers]_vars

(***************************************************************************)
(* SpecSyncClock: immediateSync beside a short queue and the clock.        *)
(***************************************************************************)
NextSyncClock ==
    \/ Login("u1")
    \/ InitFirebase
    \/ hist.ticks < DeliverMaxTicks /\ \E dt \in TickSteps : Tick(dt)
    \/ DirectEnqueues(DeliverMaxEnq, 0)
    \/ DrainSteps(0)
    \/ CommitFails(MaxCommitFails)
    \/ SyncNows

SpecSyncClock == Init /\ [][NextSyncClock]_vars

(***************************************************************************)
(* SpecReset: the usage tracker with its explicit reset and the clock.     *)
(***************************************************************************)
NextReset ==
    \/ hist.ticks < MaxTicks /\ \E dt \in TickSteps : Tick(dt)
    \/ Tracks
    \/ ResetFirestoreStats

SpecReset == Init /\ [][NextReset]_vars

(***************************************************************************)
(* SpecBridge: the initialisation of the bridge and an ensureReady call,   *)
(* every timer that is set firing in the end.                              *)
(***************************************************************************)
NextBridge ==
    \/ DocumentAdvances
    \/ IdbLoads
    \/ ShowTabLoads
    \/ AfterDOM
    \/ PollData
    \/ PollApp
    \/ EnsureReady
    \/ PollEnsure
    \/ EnsureTimeout

Timers ==
    /\ WF_vars(AfterDOM)
    /\ WF_vars(PollData)
    /\ WF_vars(PollApp)
    /\ WF_vars(PollEnsure \/ EnsureTimeout)

SpecBridge == Init /\ [][NextBridge]_vars /\ Timers

\* the event loop runs every resumption that is due, every throttle timer
\* fires, and the remote store settles every commit (accepting it unless it
\* rejects it)
Scheduling ==
    \A d \in DrainIds :
        /\ WF_vars(CommitOk(d))
        /\ WF_vars(Resume(d))
        /\ WF_vars(SleepDone(d, {}))

(***************************************************************************)
(* SpecLive: the queue under a session that, once active, stays, with the  *)
(* scheduling of the event loop.                                           *)
(***************************************************************************)
NextLive ==
    \/ Login("u1")
    \/ InitFirebase
    \/ Enqueues(LiveMaxEnq, 0)
    \/ DrainSteps(0)
    \/ CommitFails(MaxCommitFails)

SpecLive == Init /\ [][NextLive]_vars /\ Scheduling

(***************************************************************************)
(* SpecDeliver: a short queue beside the clock and recorded writes, with    *)
(* the scheduling of the event loop.                                       *)
(***************************************************************************)
NextDeliver ==
    \/ Login("u1")
    \/ InitFirebase
    \/ hist.ticks < DeliverMaxTicks /\ \E dt \in TickSteps : Tick(dt)
    \/ Enqueues(DeliverMaxEnq, 0)
    \/ DrainSteps(0)
    \/ CommitFails(MaxCommitFails)
    \/ hist.tracks < DeliverMaxTracks /\ \E n \in WriteCounts : TrackWrite(n)

SpecDeliver == Init /\ [][NextDeliver]_vars /\ Scheduling

(***************************************************************************)
(* Properties.                                                             *)
(***************************************************************************)
\* how many operations of item n the remote store has applied
CommittedIn(r, n) ==
    LET S == {o \in BagToSet(r) : o.n = n}
    IN  BagCardinality([o \in S |-> r[o]])

CommittedCount(n) == CommittedIn(remote, n)

\* no processQueue invocation is running
Quiet == ActiveDrains = {}

AllCommittedOnce ==
    /\ queue = <<>>
    /\ \A n \in 1 .. hist.enq : CommittedCount(n) = 1
    /\ BagCardinality(remote) = hist.enq

\* C1: with a session at every pass and a remote store that never rejects,
\* once the drain has ended every enqueued item has been committed exactly
\* once: N enqueues, N committed operations, none twice, none missing.
C1_ExactlyOnce ==
    (Quiet /\ ~hist.deferred /\ hist.commitFail = 0) => AllCommittedOnce

\* three items, enqueued across more than one batch, all committed
C1_Witness ==
    /\ Quiet /\ ~hist.deferred /\ hist.commitFail = 0
    /\ hist.enq = 3
    /\ BagCardinality(remote) = 3

\* item n is in the queue after the commit of its batch was rejected
Requeued(n) == \E i \in 1 .. Len(queue) : queue[i].n = n /\ queue[i].attempts > 0

\* C2: with a session at every pass, when the remote store rejects the commit
\* of a batch once and accepts every later commit, every item of that batch is
\* eventually committed, no item is ever committed twice, and when the drain
\* has ended the remote store holds exactly one operation per enqueue.
C2_RetryDelivers ==
    /\ \A n \in 1 .. LiveMaxEnq : Requeued(n) ~> (hist.deferred \/ CommittedCount(n) = 1)
    /\ [](\A n \in 1 .. LiveMaxEnq : ~hist.deferred => CommittedCount(n) <= 1)
    /\ []((Quiet /\ ~hist.deferred) => AllCommittedOnce)

\* a batch of two was rejected once, and all three items are committed
C2_Witness ==
    /\ Quiet /\ ~hist.deferred /\ hist.commitFail = 1
    /\ hist.enq = 3
    /\ AllCommittedOnce

\* C3: at most one processQueue invocation is between setting the processing
\* flag and reaching its finally block, whatever the interleaving of enqueue,
\* processQueue, clear and the completions of commits and throttle timers.
C3_SingleDrain == Cardinality(ActiveDrains) <= 1

\* C4: processQueue() called while a drain is in progress returns at once and
\* changes nothing: queue, processing flag and the batches in flight are
\* unchanged and no request goes to the remote store.
C4_DuplicateDrainNoOp ==
    [][(ActiveDrains # {} /\ ProcessQueue({}))
          => (UNCHANGED <<queue, processing, drains>> /\ InFlight' = InFlight)]_vars

\* C5: an item whose construction has failed retryAttempts consecutive times
\* is never committed to the remote store afterwards.
C5_ExhaustedNeverCommitted ==
    [][\A n \in hist.exhausted : CommittedCount(n)' = CommittedCount(n)]_vars

\* enqueue(...) called directly on the empty, idle queue with no session active
EnqueueOffline ==
    /\ queue = <<>> /\ ~processing /\ Quiet /\ ~SessionActive
    /\ \E c \in DirectInputs : Enqueue(c[1], c[2], c[3], {})

\* C6 as stated: enqueue on an empty, idle queue while no session is active
\* leaves the queue with length 1 and attempts no remote call, and status()
\* right after enqueue returns reports queueLength 1 and processing false.
C6_Original ==
    [][EnqueueOffline =>
          /\ Len(queue') = 1
          /\ InFlight' = InFlight
          /\ getStatus'.queueLength = 1
          /\ getStatus'.processing = FALSE]_vars

\* C6, amended: enqueue on an empty, idle queue while no session is active
\* leaves the queue with length 1 and attempts no remote call, and status()
\* right after enqueue returns reports queueLength 1 and processing true: the
\* drain that enqueue started has put the batch back and is suspended.
C6_OfflineEnqueueStatus ==
    [][EnqueueOffline =>
          /\ Len(queue') = 1
          /\ InFlight' = InFlight
          /\ getStatus'.queueLength = 1
          /\ getStatus'.pending = 1
          /\ getStatus'.processing = TRUE]_vars

\* getStatus() was called right after the first enqueue, made with no session
C6_Witness ==
    /\ hist.enq = 1 /\ ~SessionActive
    /\ drains[1].pc = "resume"
    /\ InFlight = EmptyBag
    /\ ret.call = "getStatus" /\ ret.queueLength = 1 /\ ret.processing

(***************************************************************************)
(* C7: delivery of an item that was enqueued without a session.            *)
(***************************************************************************)
OfflineQueued(n) == \E i \in 1 .. Len(queue) : queue[i].n = n /\ queue[i].offline

\* the commit of drain d, holding an item enqueued without a session, resolves
DeliversOffline(d) ==
    /\ drains[d].pc = "commit"
    /\ \E i \in 1 .. Len(drains[d].batch) : drains[d].batch[i].offline
    /\ CommitOk(d)

\* every item of the batch of drain d that was enqueued without a session is
\* in the remote store after the step exactly once, as one upsert of its
\* document in its collection
UpsertsCommitted(d) ==
    \A i \in {j \in 1 .. Len(drains[d].batch) : drains[d].batch[j].offline} :
        LET item == drains[d].batch[i]
            op   == [kind |-> "set", user |-> currentUser,
                     collection |-> item.collection, id |-> item.id, n |-> item.n]
        IN  /\ CommittedIn(remote', item.n) = 1
            /\ op \in BagToSet(remote') /\ remote'[op] = 1

EventuallyDelivered ==
    \A n \in 1 .. DeliverMaxEnq :
        (OfflineQueued(n) /\ SessionActive) ~> (CommittedCount(n) = 1)

\* C7 as stated: an item enqueued while no session is active is eventually
\* delivered once a session is active, by exactly one upsert committed to its
\* collection, and the commit increases the writes counter by exactly 1 for it
\* (by 1 for each item of the committed batch).
C7_Original ==
    /\ EventuallyDelivered
    /\ [][\A d \in DrainIds : DeliversOffline(d) =>
             /\ UpsertsCommitted(d)
             /\ firestoreStats'.writes =
                    firestoreStats.writes + Len(drains[d].batch)]_vars

\* C7, amended: an item enqueued while no session is active is eventually
\* delivered once a session is active, by exactly one upsert committed to its
\* collection, never more; the commit adds 1 for it (1 for each item of the
\* committed batch) to the writes counter after the 24-hour check of the
\* tracker, so the counter grows by exactly that unless the reset is due, in
\* which case it restarts from 0 and holds only the increment.
C7_OfflineDelivered ==
    /\ EventuallyDelivered
    /\ [](\A n \in 1 .. DeliverMaxEnq : CommittedCount(n) <= 1)
    /\ [][\A d \in DrainIds : DeliversOffline(d) =>
             /\ UpsertsCommitted(d)
             /\ firestoreStats'.writes =
                    (IF now - firestoreStats.lastReset >= ResetHours * MsPerHour
                     THEN 0 ELSE firestoreStats.writes) + Len(drains[d].batch)]_vars

\* the item enqueued without a session was committed at a time when the reset
\* was due, after writes had been recorded
C7_Witness ==
    /\ hist.deferred /\ hist.enq = 1 /\ hist.tracks >= 1
    /\ queue = <<>> /\ Quiet /\ CommittedCount(1) = 1
    /\ firestoreStats.writes = 1 /\ firestoreStats.reads = 0
    /\ firestoreStats.lastReset = now /\ now >= ResetHours * MsPerHour

(***************************************************************************)
(* C8, C9: the sync facade without a session.                              *)
(***************************************************************************)
SyncNowNoSession ==
    /\ ~SessionActive
    /\ \E c \in SyncNowInputs : ImmediateSync(c[1], c[2], c[3])

\* C8: immediateSync called with no active session (no user or no remote
\* handle) rejects with the session error, whatever the collection, payload and
\* operation, leaves the queue, the processing flag and the usage counters
\* unchanged and issues no remote write or delete.
C8_SyncNowRejects ==
    [][SyncNowNoSession =>
          /\ ret'.call = "immediateSync" /\ ret'.result = "SessionError"
          /\ UNCHANGED <<queue, processing, drains, firestoreStats, saved>>
          /\ UNCHANGED <<direct, remote>>
          /\ InFlight' = InFlight]_vars

\* immediateSync was rejected, with no session, beside a queue that holds an
\* item, a running drain and counted writes
C8_Witness ==
    /\ ~SessionActive
    /\ ret.call = "immediateSync" /\ ret.result = "SessionError"
    /\ Len(queue) > 0 /\ processing /\ firestoreStats.writes > 0

\* the items the queue and the batches of the drains hold
RECURSIVE BatchesFrom(_)
BatchesFrom(d) ==
    IF d \notin DrainIds THEN EmptyBag
    ELSE SeqToBag(drains[d].batch) (+) BatchesFrom(d + 1)

Held == SeqToBag(queue) (+) BatchesFrom(1)

FacadeNoSession ==
    /\ ~SessionActive
    /\ \E c \in FacadeInputs : QueueBackgroundSync(c[1], c[2], c[3], {})

\* the item queueBackgroundSync(c) is to append
FacadeItem(c) ==
    [ operation  |-> c[3],
      collection |-> c[1],
      data       |-> c[2],
      id         |-> IF c[2].id # NoId THEN c[2].id ELSE <<"gen", hist.enq + 1>>,
      attempts   |-> 0,
      n          |-> hist.enq + 1,
      owner      |-> currentUser,
      offline    |-> FALSE,
      cf         |-> 0 ]

\* C9: queueBackgroundSync called with no active session is a no-op: it returns
\* without error, the queue and the processing flag are unchanged, no drain is
\* started and no remote call is made; with an active session it appends exactly
\* one item, its id taken from data.id when present, via enqueue (which hands
\* the queue to a drain when none is running).
C9_QueueForSync ==
    [][/\ FacadeNoSession =>
             /\ ret'.call = "queueBackgroundSync" /\ ret'.result = "skipped"
             /\ UNCHANGED <<queue, processing, drains, direct, remote>>
             /\ InFlight' = InFlight
       /\ \A c \in FacadeInputs :
             (SessionActive /\ QueueBackgroundSync(c[1], c[2], c[3], {})) =>
                 /\ ret'.result = "queued"
                 /\ Held' = Held (+) SetToBag({FacadeItem(c)})
                 /\ processing => /\ queue' = Append(queue, FacadeItem(c))
                                  /\ UNCHANGED drains
                 /\ processing']_vars

\* queueBackgroundSync was skipped, with no session, beside a queue that holds
\* the item an earlier call with a session appended with the id of its data
C9_Witness ==
    /\ ~SessionActive
    /\ ret.call = "queueBackgroundSync" /\ ret.result = "skipped"
    /\ \E i \in 1 .. Len(queue) :
          /\ queue[i].id = <<"doc", 1>> /\ queue[i].data.id = <<"doc", 1>>
          /\ queue[i].operation = "delete" /\ queue[i].collection = "customers"

(***************************************************************************)
(* C10: the 24-hour reset of the usage counters.                           *)
(***************************************************************************)
ResetDue == now - firestoreStats.lastReset >= 24 * 60 * 60 * 1000

HeldItems == BagToSet(Held)

SameIdentity(x, y) ==
    /\ x.id = y.id /\ x.collection = y.collection
    /\ x.operation = y.operation /\ x.data = y.data

\* the id enqueue gave the item: the id of its data, or the one generated for it
OriginalId(x) == IF x.data.id # NoId THEN x.data.id ELSE <<"gen", x.n>>

\* C11: an item's id is stable across retries: on every re-enqueue path
\* (session absent, construction failure, commit failure) the re-enqueued item
\* carries the id, collection, operation and data of the item originally
\* enqueued, and the operation built from it addresses that id.
C11_IdStable ==
    /\ [](\A x \in HeldItems : x.id = OriginalId(x))
    /\ [](\A x \in HeldItems, y \in HeldItems : x.n = y.n => SameIdentity(x, y))
    /\ [](\A o \in BagToSet(InFlight) : \A x \in HeldItems :
              x.n = o.n => o.id = x.id /\ o.collection = x.collection)
    /\ [][\A x \in HeldItems' : \A y \in HeldItems : x.n = y.n => SameIdentity(x, y)]_vars

\* an item enqueued without a session was deferred, failed a construction and
\* was in a rejected commit, and is queued again under its id
C11_Witness ==
    /\ hist.deferred /\ hist.cfail >= 1 /\ hist.commitFail >= 1
    /\ \E i \in 1 .. Len(queue) :
          /\ queue[i].offline /\ queue[i].attempts >= 2
          /\ queue[i].id = <<"gen", queue[i].n>>

(***************************************************************************)
(* C12: a batch taken while no session is active.                          *)
(***************************************************************************)
\* a drain takes its next batch while no session is active
DeferredPass ==
    /\ ~SessionActive
    /\ Len(queue) > 0
    /\ \E d \in DrainIds : SleepDone(d, {})

\* C12: when a batch is taken for delivery while the session precondition is
\* absent, the whole batch is pushed back unchanged: afterwards the queue holds
\* the same items in the same FIFO order as before the batch was taken (also
\* when it held more than batchSize items), no attempts count has changed and
\* no remote request was issued.
C12_DeferredKeepsOrder ==
    [][DeferredPass => queue' = queue /\ InFlight' = InFlight]_vars

(***************************************************************************)
(* C13: a rejected commit.                                                 *)
(***************************************************************************)
\* the queue positions that hold item n
QueuedAt(q, n) == {i \in 1 .. Len(q) : q[i].n = n}

\* the attempts count item had when its batch was taken: a construction that
\* threw has counted one attempt on it already, while it was below the limit
AttemptsWhenTaken(item) ==
    IF item.cf > 0 /\ item.cf <= retryAttempts THEN item.attempts - 1 ELSE item.attempts

\* C13: when the commit of a batch fails, every item of that batch is
\* re-enqueued at the tail of the queue exactly once with its attempts count
\* incremented by exactly 1, and none of them is counted as committed, also
\* when some items of the batch failed construction.
C13_CommitFailRequeuesOnce ==
    [][\A d \in DrainIds : CommitFail(d) =>
          /\ \A i \in 1 .. Len(drains[d].batch) :
                LET item == drains[d].batch[i]
                    at   == QueuedAt(queue', item.n)
                IN  /\ Cardinality(at) = 1
                    /\ \A j \in at : /\ j > Len(queue)
                                     /\ queue'[j].attempts = AttemptsWhenTaken(item) + 1
          /\ remote' = remote
          /\ firestoreStats' = firestoreStats]_vars

(***************************************************************************)
(* C14: the writes counter and the remote writes.                          *)
(***************************************************************************)
\* C14: within one 24-hour window the writes counter equals the number of
\* operations in the committed batches plus the number of immediateSync calls
\* that succeeded; a rejected commit, a deferral for a missing session or a
\* construction that throws never increments it.
C14_WritesCountRemote ==
    /\ [](firestoreStats.writes = BagCardinality(remote))
    /\ [][firestoreStats'.writes # firestoreStats.writes =>
             \/ \E d \in DrainIds : CommitOk(d) /\ drains[d].ops # <<>>
             \/ \E i \in 1 .. Len(direct) : ImmediateSyncOk(i)]_vars

\* a batch and an immediateSync write were counted after a deferral, a
\* construction that threw and a rejected commit
C14_Witness ==
    /\ hist.deferred /\ hist.cfail >= 1 /\ hist.commitFail >= 1
    /\ direct = <<>> /\ Quiet
    /\ firestoreStats.writes >= 3
    /\ \E o \in BagToSet(remote) : o.n = 0
    /\ \E o \in BagToSet(remote) : o.n > 0

(***************************************************************************)
(* C15: the persisted copy of the usage counters.                          *)
(***************************************************************************)
TrackerMutation ==
    \/ \E c \in ReadCounts : TrackRead(c)
    \/ \E c \in WriteCounts : TrackWrite(c)
    \/ ResetFirestoreStats

\* C15: the tracker persists the full stats object after every mutation: after
\* each trackFirestoreRead, trackFirestoreWrite (with or without an auto-reset)
\* and resetFirestoreStats the persisted 'firestoreStats' record equals the
\* in-memory stats, and the explicit reset has the effect of the auto-reset
\* (counters 0, history empty, lastReset = now, persisted).
C15_PersistedAfterMutation ==
    [][/\ TrackerMutation => saved' = <<firestoreStats'>>
       /\ ResetFirestoreStats =>
             firestoreStats' = [reads |-> 0, writes |-> 0, history |-> <<>>,
                                lastReset |-> now]]_vars

(***************************************************************************)
(* C16: immediateSync with a session.                                      *)
(***************************************************************************)
\* the write or delete immediateSync(c) is to issue
SyncNowOp(c) ==
    [ kind       |-> IF c[3] = "delete" THEN "delete" ELSE "set",
      user       |-> currentUser,
      collection |-> c[1],
      id         |-> IF c[2].id # NoId THEN c[2].id ELSE <<"now", now>>,
      n          |-> 0 ]

\* immediateSync with a session issues exactly one direct write or delete and
\* leaves the queue, the drains and the processing flag alone
SyncNowBypasses ==
    \A c \in SyncNowInputs :
        (SessionActive /\ ImmediateSync(c[1], c[2], c[3])) =>
            /\ direct' = Append(direct, SyncNowOp(c))
            /\ UNCHANGED <<queue, processing, drains, remote, firestoreStats, saved>>

\* a rejected write is propagated to the caller and not counted
SyncNowFailurePropagates ==
    \A i \in 1 .. Len(direct) :
        ImmediateSyncFail(i) =>
            /\ ret'.call = "immediateSync" /\ ret'.result = "RemoteError"
            /\ UNCHANGED <<queue, processing, drains, remote, firestoreStats, saved>>

\* C16 as stated: immediateSync with an active session bypasses the queue: in
\* every queue state it issues exactly one direct remote write or delete and
\* leaves the queue and the processing flag unchanged; a failure of the remote
\* operation is propagated and leaves the usage counters unchanged, and on
\* success the writes counter increases by exactly 1 and the call returns true.
C16_Original ==
    [][/\ SyncNowBypasses
       /\ SyncNowFailurePropagates
       /\ \A i \in 1 .. Len(direct) :
             ImmediateSyncOk(i) =>
                 /\ ret'.call = "immediateSync" /\ ret'.result = "true"
                 /\ remote' = remote (+) SetToBag({direct[i]})
                 /\ UNCHANGED <<queue, processing, drains>>
                 /\ firestoreStats'.writes = firestoreStats.writes + 1]_vars

\* C16, amended: as stated, except that on success 1 write is recorded after
\* the 24-hour check of the tracker: the writes counter increases by exactly 1
\* unless the reset is due, in which case it restarts from 0 and holds 1.
C16_SyncNowBypassesQueue ==
    [][/\ SyncNowBypasses
       /\ SyncNowFailurePropagates
       /\ \A i \in 1 .. Len(direct) :
             ImmediateSyncOk(i) =>
                 /\ ret'.call = "immediateSync" /\ ret'.result = "true"
                 /\ remote' = remote (+) SetToBag({direct[i]})
                 /\ UNCHANGED <<queue, processing, drains>>
                 /\ firestoreStats'.writes =
                        (IF ResetDue THEN 0 ELSE firestoreStats.writes) + 1
                 /\ saved' = <<firestoreStats'>>]_vars

\* immediateSync returned true beside a queue that holds an item under a
\* running drain, its write applied and counted
C16_Witness ==
    /\ ret.call = "immediateSync" /\ ret.result = "true"
    /\ Len(queue) > 0 /\ processing
    /\ firestoreStats.writes >= 1
    /\ \E o \in BagToSet(remote) : o.n = 0

(***************************************************************************)
(* C17: no item is left without a drain.                                   *)
(***************************************************************************)
\* C17: a drain ends only when the queue is empty and then clears the
\* processing flag: whenever no processQueue invocation is active the queue is
\* empty and the flag is clear, for all sequences of enqueue calls, session
\* changes, construction failures and commit failures.
C17_NoStrandedItems ==
    /\ [](ActiveDrains = {} => queue = <<>> /\ ~processing)
    /\ [][\A d \in DrainIds :
             (drains[d].pc # "idle" /\ drains'[d].pc = "idle") =>
                 queue = <<>> /\ queue' = <<>> /\ ~processing']_vars

\* the drain has ended on an empty queue after a deferral, a construction that
\* threw and a rejected commit
C17_Witness ==
    /\ hist.deferred /\ hist.cfail >= 1 /\ hist.commitFail >= 1
    /\ ActiveDrains = {} /\ queue = <<>> /\ ~processing
    /\ BagCardinality(remote) >= 2

(***************************************************************************)
(* C18: a sustained outage.                                                *)
(***************************************************************************)
\* C18: while every commit fails there is no cap on the retries of a batch: no
\* item is ever dropped, each failed commit adds exactly 1 to the attempts of
\* each item of its batch, beyond retryAttempts, and the drain never ends: the
\* processing flag stays true and, the session being active, every throttle
\* pause is followed by another commit.
C18_OutageRetriesUnbounded ==
    /\ [](\A n \in 1 .. hist.enq : Cardinality({x \in HeldItems : x.n = n}) = 1)
    /\ [](BagCardinality(Held) = hist.enq)
    /\ [](hist.enq > 0 => processing /\ Cardinality(ActiveDrains) = 1)
    /\ [][\A d \in DrainIds : CommitFail(d) =>
             queue' = queue \o [i \in 1 .. Len(drains[d].batch) |->
                                   [drains[d].batch[i] EXCEPT !.attempts = @ + 1]]]_vars
    /\ [][\A d \in DrainIds :
             (SessionActive /\ drains[d].pc = "sleep" /\ SleepDone(d, {})) =>
                 /\ drains'[d].pc = "commit"
                 /\ drains'[d].batch = SubSeq(queue, 1, Min(batchSize, Len(queue)))]_vars

\* after four rejected commits an item has more attempts than retryAttempts
\* and is still queued under the running drain
C18_Witness ==
    /\ hist.commitFail = 4 /\ processing
    /\ \E i \in 1 .. Len(queue) : queue[i].attempts > retryAttempts

(***************************************************************************)
(* C19: batches and throttle pauses within a drain.                        *)
(***************************************************************************)
\* drain d hands a batch to the remote store in this step
Delivers(d) == drains[d].pc # "commit" /\ drains'[d].pc = "commit"

\* C19: within a drain each pass removes at most batchSize items from the head
\* of the queue in FIFO order and delivers them as one atomic request; a pass
\* other than the first of the drain follows a throttle pause, which is taken
\* only after a batch that left items in the queue: a drain that finds the
\* queue empty after a batch ends without a pause.
C19_BatchesAndPauses ==
    [][\A d \in DrainIds :
          /\ Delivers(d) =>
                LET taken == drains'[d].batch \o queue'
                IN  /\ drains[d].pc \in {"idle", "sleep"}
                    /\ SubSeq(taken, 1, Len(queue)) = queue
                    /\ drains[d].pc = "sleep" => taken = queue
                    /\ Len(drains'[d].batch) = Min(batchSize, Len(taken))
                    /\ Len(drains'[d].batch) \in 1 .. batchSize
                    /\ Len(drains'[d].ops) = Len(drains'[d].batch)
                    /\ \A i \in 1 .. Len(drains'[d].ops) :
                          /\ drains'[d].ops[i].n = drains'[d].batch[i].n
                          /\ drains'[d].ops[i].id = drains'[d].batch[i].id
                    /\ InFlight' = InFlight (+) SeqToBag(drains'[d].ops)
          /\ (drains[d].pc # "sleep" /\ drains'[d].pc = "sleep") =>
                drains[d].pc = "resume" /\ Len(queue) > 0
          /\ (drains[d].pc = "resume" /\ drains'[d].pc # "resume") =>
                drains'[d].pc = IF Len(queue) > 0 THEN "sleep" ELSE "idle"
          /\ (drains[d].pc = "commit" /\ drains'[d].pc # "commit") =>
                drains'[d].pc = "resume"]_vars

\* the second batch of a drain is with the remote store: the first was
\* committed, items were left and the pause was taken
C19_Witness ==
    /\ hist.commitFail = 0 /\ hist.enq = 3 /\ ~hist.deferred
    /\ \E d \in DrainIds :
          /\ drains[d].pc = "commit"
          /\ Len(drains[d].batch) = batchSize
          /\ BagCardinality(remote) = 1

(***************************************************************************)
(* C20: the readiness waits of the bridge.                                 *)
(***************************************************************************)
AllLayersReady ==
    bridge.uiLayerReady /\ bridge.dataLayerReady /\ bridge.appLayerReady

\* C20: the readiness waits never hang: waitForDataLayer resolves after at most
\* 200 polls and waitForAppLayer after at most 100, whether or not the
\* dependency ever appears, so that initializeBridge, once the DOM is ready,
\* ends with bridgeReady and the three layer flags true; ensureReady always
\* resolves, with true only when the bridge is ready and with false only by
\* its 10-second timeout.
C20_BridgeWaitsEnd ==
    /\ [](bridge.at = "waitForDataLayer" => bridge.attempts < 200)
    /\ [](bridge.at = "waitForAppLayer" => bridge.attempts < 100)
    /\ [](bridge.bridgeReady => AllLayersReady /\ bridge.initializationComplete)
    /\ (bridge.readyState # "loading") ~> (bridge.bridgeReady /\ AllLayersReady)
    /\ (bridge.ensure = "waiting") ~> (bridge.ensure \in {"true", "false"})
    /\ [][(bridge.ensure # "true" /\ bridge'.ensure = "true") =>
             bridge.bridgeReady]_vars
    /\ [][(bridge.ensure # "false" /\ bridge'.ensure = "false") =>
             bridge.ensure = "waiting" /\ bridge.polls * 50 >= 10000 - 50]_vars

\* the bridge is ready although neither idb nor showTab ever appeared and the
\* page has not finished loading, and ensureReady has resolved with false
C20_Witness ==
    /\ bridge.bridgeReady /\ AllLayersReady
    /\ ~bridge.idb /\ ~bridge.showTab /\ bridge.readyState = "interactive"
    /\ bridge.ensure = "false"

(***************************************************************************)
(* C21: clear() during a drain.                                            *)
(***************************************************************************)
\* C21: clear() discards all pending work, also when called during a drain:
\* after it no item enqueued before it is in the queue again or is committed
\* (the items of a batch in flight at the time of the clear included), and the
\* queue stays empty until the next enqueue.
C21_ClearDiscardsAll ==
    /\ [](\A i \in 1 .. Len(queue) : queue[i].n > hist.cleared)
    /\ [][\A n \in 1 .. hist.cleared : CommittedIn(remote', n) = CommittedIn(remote, n)]_vars
    /\ [][(hist.clears > 0 /\ queue = <<>> /\ queue' # <<>>) =>
             hist'.enq = hist.enq + 1]_vars

(***************************************************************************)
(* C22: the user an item is committed under.                               *)
(***************************************************************************)
\* C22: a queued item is only ever committed under the user who was logged in
\* when it was enqueued: whatever the sequence of enqueue, logout, login as
\* another user and drain, with deferrals or rejected commits in between, no
\* item enqueued under one user is written under another user's scope.
C22_CommittedUnderOwner ==
    [][\A d \in DrainIds : CommitOk(d) =>
          \A i \in 1 .. Len(drains[d].batch), j \in 1 .. Len(drains[d].ops) :
              (drains[d].batch[i].n = drains[d].ops[j].n
                  /\ drains[d].batch[i].owner \in Users
                  /\ ~drains[d].batch[i].offline) =>
                  drains[d].ops[j].user = drains[d].batch[i].owner]_vars

(***************************************************************************)
(* C23: the items of a batch whose construction threw.                     *)
(***************************************************************************)
\* the commit of drain d settles in this step
Settles(d) == drains[d].pc = "commit" /\ drains'[d].pc = "resume"

\* an item of a batch with the remote store whose construction threw: it was
\* dropped when the queue does not hold it, else it was queued again
Dropped(item) == item.cf > 0 /\ QueuedAt(queue, item.n) = {}
Retried(item) == item.cf > 0 /\ QueuedAt(queue, item.n) # {}

\* an item dropped for a construction that threw with attempts at
\* retryAttempts is not re-enqueued, whatever the outcome of the commit of
\* the rest of its batch
DroppedStaysGone ==
    [][\A d \in DrainIds : Settles(d) =>
          \A i \in 1 .. Len(drains[d].batch) :
              Dropped(drains[d].batch[i]) =>
                  QueuedAt(queue', drains[d].batch[i].n) = {}]_vars

\* an item whose construction threw with attempts below retryAttempts is in
\* the queue exactly once after its batch has been processed
RetriedQueuedOnce ==
    [][\A d \in DrainIds : Settles(d) =>
          \A i \in 1 .. Len(drains[d].batch) :
              Retried(drains[d].batch[i]) =>
                  Cardinality(QueuedAt(queue', drains[d].batch[i].n)) = 1]_vars

\* C23: an item dropped from a batch because its construction failed with
\* attempts already at retryAttempts is gone for good, never re-enqueued and
\* never committed afterwards, whatever the outcome of the commit of the rest
\* of its batch; and an item that failed construction with attempts below
\* retryAttempts is in the queue exactly once after the batch was processed.
C23_DroppedGoneRetriedOnce == DroppedStaysGone /\ RetriedQueuedOnce

====
